---- MODULE Spec2Model ----
(***************************************************************************)
(* Model of the live tour screen (src/src/components/LiveTourScreen.jsx)   *)
(* and of the progress bar it embeds (NarrationProgressBar, App.jsx).      *)
(*                                                                         *)
(* The component is a React function component.  One step of the model is  *)
(* one event (a user tap, a geolocation callback, a media event, a timer   *)
(* callback) processed to completion: the handler's state updates are      *)
(* batched, the component renders, the effects whose dependencies changed  *)
(* run in declaration order reading the values of that render, the updates *)
(* they queue are batched into the next render, and so on until a render   *)
(* changes nothing.                                                        *)
(*                                                                         *)
(* Coordinates: all points lie on one meridian and latitude is measured in *)
(* metres of arc, so the great-circle distance is the absolute difference  *)
(* of the latitudes.  A latitude of 0 stands for a missing coordinate      *)
(* (the code tests !stop.lat).                                             *)
(*                                                                         *)
(* Left out: hasPlayedGreeting and showSettings (written, never read by    *)
(* the logic), the scroll and debug effects, vibration, and tour content   *)
(* without a tour_id.  Elapsed times are sampled at 0, 59, 60 and 61 s for *)
(* the narration and at 0 and 1 for the other elements.                    *)
(*                                                                         *)
(* localStorage.setItem may raise (quota exceeded, storage disabled).  The *)
(* save effect calls it outside any try block, so the exception leaves the *)
(* effect; no error boundary is rendered above the screen, and React       *)
(* unmounts the tree.  Spec is the program with a store that accepts every *)
(* write; SpecFailingStore adds the step after which setItem raises.       *)
(***************************************************************************)
EXTENDS Integers, Sequences, FiniteSets, TLC

\* ------------------------------------------------------------------ bounds
MaxStops == 1        \* most real stops a tour has
MaxTimers == 2       \* most setTimeout callbacks pending at once

\* ------------------------------------------------------- program constants
VISITED_THRESHOLD_SECONDS == 60
APPROACH_DISTANCE == 60
ARRIVE_DISTANCE == 18

Null == "null"
ArriveBanner == "You're here! Ready to hear the story?"
ApproachBanner == "Almost there! Come a bit closer to hear the story."
Segments == {"greeting", "approaching", "arrived", "narration", "ending"}

\* kinds of pending setTimeout callback: BANNER_TIMEOUT (15 s), AUDIO_DELAY (10 s)
BANNER_TIMEOUT == "BANNER_TIMEOUT"
AUDIO_DELAY == "AUDIO_DELAY"

VARIABLES
  tour,          \* "null" | "with_id": the fetched tour content (it carries a tour_id)
  allStops,      \* sequence of [kind, lat]; <<>> until the content is loaded
  activeStop,    \* index in allStops, 0-based
  isPlaying,
  visitedStops,  \* array of indices
  banner,        \* Null or a banner text
  currentAudio,  \* Null or a segment
  userLocation,  \* <<>> (null) or <<lat>>
  store,         \* localStorage entry of the tour: <<>> (absent) or the JSON text
  timers,        \* pending setTimeout callbacks, in the order they were scheduled
  audioTime,     \* currentTime of each <audio> element
  audioPlaying,  \* the <audio> elements that are playing
  audioEnded,    \* the <audio> elements whose playback has ended
  tappedPlay,    \* history: the user started playback with the play button at this stop
  mounted,       \* the component tree is mounted
  setItemRaises  \* localStorage.setItem raises from now on

vars == <<tour, allStops, activeStop, isPlaying, visitedStops, banner,
          currentAudio, userLocation, store, timers, audioTime, audioPlaying,
          audioEnded, tappedPlay, mounted, setItemRaises>>

\* ------------------------------------------------------------------ helpers
Abs(x) == IF x < 0 THEN -x ELSE x

Includes(arr, x) == \E i \in 1..Len(arr) : arr[i] = x

getDistanceMeters(lat1, lat2) == Abs(lat2 - lat1)

\* allStops is 1-indexed here; idx is the 0-based index of the code
isRealStop(idx, stops) == idx > 0 /\ idx < Len(stops) - 1

Stop(stops, idx) == stops[idx + 1]

\* real stops lie 1000 m apart
StopLat(i) == i * 1000

\* latitudes the location source may report: on both sides of each threshold
\* around the first stop (far from every other stop)
Offsets == {ARRIVE_DISTANCE, ARRIVE_DISTANCE + 1, APPROACH_DISTANCE, APPROACH_DISTANCE + 1}
UserLats == {StopLat(1) + d : d \in Offsets}

\* elapsed-time samples of an <audio> element
NarrationTimes == {0, VISITED_THRESHOLD_SECONDS - 1, VISITED_THRESHOLD_SECONDS,
                   VISITED_THRESHOLD_SECONDS + 1}
Times(seg) == IF seg = "narration" THEN NarrationTimes ELSE {0, 1}
\* the last sample of an element: playback ends from there
LastTime(seg) == IF seg = "narration" THEN VISITED_THRESHOLD_SECONDS + 1 ELSE 1

\* JSON.stringify({activeStop, visitedStops}) and JSON.parse of the stored text
JSONstringify(p) == <<"activeStop", p.activeStop, "visitedStops", p.visitedStops>>
JSONparse(text) == IF text = <<>> THEN <<>>
                   ELSE <<[activeStop |-> text[2], visitedStops |-> text[4]]>>

\* ------------------------------------------------- the component as a record
Cur == [tour |-> tour, allStops |-> allStops, activeStop |-> activeStop,
        isPlaying |-> isPlaying, visitedStops |-> visitedStops, banner |-> banner,
        currentAudio |-> currentAudio, userLocation |-> userLocation,
        store |-> store, timers |-> timers, audioTime |-> audioTime,
        audioPlaying |-> audioPlaying, audioEnded |-> audioEnded,
        tappedPlay |-> tappedPlay, mounted |-> mounted,
        setItemRaises |-> setItemRaises, freshVisited |-> FALSE]

Commit(m) ==
  /\ mounted
  /\ Len(m.timers) <= MaxTimers
  /\ tour' = m.tour
  /\ allStops' = m.allStops
  /\ activeStop' = m.activeStop
  /\ isPlaying' = m.isPlaying
  /\ visitedStops' = m.visitedStops
  /\ banner' = m.banner
  /\ currentAudio' = m.currentAudio
  /\ userLocation' = m.userLocation
  /\ store' = m.store
  /\ timers' = m.timers
  /\ audioTime' = m.audioTime
  /\ audioPlaying' = m.audioPlaying
  /\ audioEnded' = m.audioEnded
  /\ tappedPlay' = m.tappedPlay
  /\ mounted' = m.mounted
  /\ setItemRaises' = m.setItemRaises

\* which dependencies a batch of updates changed (arrays and objects compare by
\* identity: a new array or a new location object always counts as changed)
NoChange == [tour |-> FALSE, allStops |-> FALSE, activeStop |-> FALSE,
             userLocation |-> FALSE, visitedStops |-> FALSE,
             currentAudio |-> FALSE, isPlaying |-> FALSE]

Changed(a, b) == [tour |-> a.tour # b.tour,
                  allStops |-> a.allStops # b.allStops,
                  activeStop |-> a.activeStop # b.activeStop,
                  userLocation |-> FALSE,
                  visitedStops |-> b.freshVisited,
                  currentAudio |-> a.currentAudio # b.currentAudio,
                  isPlaying |-> a.isPlaying # b.isPlaying]

\* the <audio> elements are rendered only once tour, greeting and ending are set
ElementsRendered(r) == r.tour # Null

setTimeout(w, kind) == [w EXCEPT !.timers = Append(@, [kind |-> kind, stale |-> FALSE])]

\* history kept with each pending callback: the stop index changed after it was scheduled
MarkStale(ts) == IF ts = <<>> THEN <<>>
                 ELSE [i \in 1..Len(ts) |-> [ts[i] EXCEPT !.stale = TRUE]]

\* HTMLMediaElement.play(): playback that has ended restarts from the beginning
play(w, seg) == [w EXCEPT !.audioPlaying = @ \cup {seg},
                          !.audioTime[seg] = IF seg \in w.audioEnded THEN 0 ELSE @,
                          !.audioEnded = @ \ {seg}]
pause(w, seg) == [w EXCEPT !.audioPlaying = @ \ {seg}]
setCurrentTime(w, seg, t) == [w EXCEPT !.audioTime[seg] = t, !.audioEnded = @ \ {seg}]

\* ------------------------------------------------------------------ effects
\* Each effect reads the values of the render it belongs to (r) and applies
\* its queued state updates and its side effects to w.

\* variant that keeps the visitedStops of the record it finds
SaveProgressEffect_IndexOnly(r, w) ==
  IF r.tour # "with_id" THEN w
  ELSE IF w.setItemRaises THEN [w EXCEPT !.mounted = FALSE]
  ELSE [w EXCEPT !.store = JSONstringify([activeStop |-> r.activeStop,
                                          visitedStops |->
                                            IF w.store = <<>> THEN <<>>
                                            ELSE JSONparse(w.store)[1].visitedStops])]

\* save progress effect, deps [tour, activeStop, visitedStops]; an exception
\* raised by setItem leaves the effect and the tree is unmounted
SaveProgressEffect(r, w) ==
  IF r.tour # "with_id" THEN w
  ELSE IF w.setItemRaises THEN [w EXCEPT !.mounted = FALSE]
  ELSE [w EXCEPT !.store = JSONstringify([activeStop |-> r.activeStop,
                                          visitedStops |-> r.visitedStops])]

\* variant that reads the record as it was before the save effect of the same
\* render wrote it
LoadProgressEffect_ReadsEarlierRecord(r, w) ==
  IF r.tour # "with_id" THEN w
  ELSE LET progress == JSONparse(r.store)
       IN IF progress = <<>> THEN w
          ELSE [w EXCEPT !.activeStop = progress[1].activeStop,
                         !.visitedStops = progress[1].visitedStops,
                         !.freshVisited = TRUE]

\* load progress effect, deps [tour]
LoadProgressEffect(r, w) ==
  IF r.tour # "with_id" THEN w
  ELSE LET progress == JSONparse(w.store)
       IN IF progress = <<>> THEN w
          ELSE [w EXCEPT !.activeStop = progress[1].activeStop,
                         !.visitedStops = progress[1].visitedStops,
                         !.freshVisited = TRUE]

\* the distance thresholds of the autoplay effect
ProximityDecision(w, dist) ==
  IF dist <= ARRIVE_DISTANCE
  THEN setTimeout([w EXCEPT !.currentAudio = "arrived", !.isPlaying = TRUE,
                            !.banner = ArriveBanner], BANNER_TIMEOUT)
  ELSE IF dist <= APPROACH_DISTANCE
  THEN setTimeout([w EXCEPT !.currentAudio = "approaching", !.isPlaying = TRUE,
                            !.banner = ApproachBanner], BANNER_TIMEOUT)
  ELSE [w EXCEPT !.currentAudio = "narration", !.isPlaying = FALSE]

\* variant of the real-stop branch in which a revisited stop autoplays like a
\* stop without coordinates
RealStopAutoplay_RevisitPlays(r, w) ==
  IF Includes(r.visitedStops, r.activeStop) \/ Stop(r.allStops, r.activeStop).lat = 0
  THEN IF r.currentAudio # "narration"
       THEN [w EXCEPT !.currentAudio = "narration", !.isPlaying = TRUE]
       ELSE w
  ELSE IF r.currentAudio \in {"approaching", "arrived", "narration"}
  THEN w
  ELSE IF r.userLocation # <<>>
  THEN ProximityDecision(w, getDistanceMeters(r.userLocation[1],
                                               Stop(r.allStops, r.activeStop).lat))
  ELSE [w EXCEPT !.currentAudio = "narration", !.isPlaying = TRUE]

\* variant of the real-stop branch without the in-flight guard
RealStopAutoplay_NoInFlightGuard(r, w) ==
  IF Includes(r.visitedStops, r.activeStop)
  THEN IF r.currentAudio # "narration"
       THEN [w EXCEPT !.currentAudio = "narration", !.isPlaying = FALSE]
       ELSE w
  ELSE IF Stop(r.allStops, r.activeStop).lat = 0
  THEN IF r.currentAudio # "narration"
       THEN [w EXCEPT !.currentAudio = "narration", !.isPlaying = TRUE]
       ELSE w
  ELSE IF r.userLocation # <<>>
  THEN ProximityDecision(w, getDistanceMeters(r.userLocation[1],
                                               Stop(r.allStops, r.activeStop).lat))
  ELSE [w EXCEPT !.currentAudio = "narration", !.isPlaying = TRUE]

\* variant of the real-stop branch whose revisit rule also applies to a
\* narration that is already active
RealStopAutoplay_RevisitPauses(r, w) ==
  IF Includes(r.visitedStops, r.activeStop)
  THEN [w EXCEPT !.currentAudio = "narration", !.isPlaying = FALSE]
  ELSE IF Stop(r.allStops, r.activeStop).lat = 0
  THEN IF r.currentAudio # "narration"
       THEN [w EXCEPT !.currentAudio = "narration", !.isPlaying = TRUE]
       ELSE w
  ELSE IF r.currentAudio \in {"approaching", "arrived", "narration"}
  THEN w
  ELSE IF r.userLocation # <<>>
  THEN ProximityDecision(w, getDistanceMeters(r.userLocation[1],
                                               Stop(r.allStops, r.activeStop).lat))
  ELSE [w EXCEPT !.currentAudio = "narration", !.isPlaying = TRUE]

\* autoplay effect, real-stop branch
RealStopAutoplay(r, w) ==
  IF Includes(r.visitedStops, r.activeStop)
  THEN IF r.currentAudio # "narration"
       THEN [w EXCEPT !.currentAudio = "narration", !.isPlaying = FALSE]
       ELSE w
  ELSE IF Stop(r.allStops, r.activeStop).lat = 0
  THEN IF r.currentAudio # "narration"
       THEN [w EXCEPT !.currentAudio = "narration", !.isPlaying = TRUE]
       ELSE w
  ELSE IF r.currentAudio \in {"approaching", "arrived", "narration"}
  THEN w
  ELSE IF r.userLocation # <<>>
  THEN ProximityDecision(w, getDistanceMeters(r.userLocation[1],
                                               Stop(r.allStops, r.activeStop).lat))
  ELSE [w EXCEPT !.currentAudio = "narration", !.isPlaying = TRUE]

\* variant of the autoplay effect without the greeting and ending branches
AutoplayEffect_RealStopsOnly(r, w) ==
  IF Len(r.allStops) # 0 /\ isRealStop(r.activeStop, r.allStops)
  THEN RealStopAutoplay(r, w)
  ELSE w

\* autoplay effect, deps [activeStop, allStops, userLocation, visitedStops, currentAudio]
AutoplayEffect(r, w) ==
  IF Len(r.allStops) = 0 THEN w
  ELSE IF r.activeStop = 0
  THEN IF r.currentAudio # "greeting"
       THEN [w EXCEPT !.currentAudio = "greeting", !.isPlaying = FALSE]
       ELSE w
  ELSE IF r.activeStop = Len(r.allStops) - 1
  THEN IF r.currentAudio # "ending"
       THEN [w EXCEPT !.currentAudio = "ending", !.isPlaying = TRUE]
       ELSE w
  ELSE IF isRealStop(r.activeStop, r.allStops)
  THEN RealStopAutoplay(r, w)
  ELSE w

\* "only one audio element plays at a time" effect, deps [currentAudio, isPlaying]
RECURSIVE PlayOrPauseAll(_, _, _)
\* variant without the pause() branch
PlayOrPauseAll_PlaysOnly(r, w, segs) ==
  IF r.currentAudio \in segs /\ r.isPlaying THEN play(w, r.currentAudio) ELSE w

PlayOrPauseAll(r, w, segs) ==
  IF segs = {} THEN w
  ELSE LET seg == CHOOSE x \in segs : TRUE
           w1 == IF r.currentAudio = seg /\ r.isPlaying THEN play(w, seg) ELSE pause(w, seg)
       IN PlayOrPauseAll(r, w1, segs \ {seg})

\* variant that plays or pauses the current element and leaves the others alone
SingleAudioEffect_LeavesOthers(r, w) ==
  IF ElementsRendered(r) /\ r.currentAudio # Null
  THEN PlayOrPauseAll(r, w, {r.currentAudio})
  ELSE w

SingleAudioEffect(r, w) ==
  IF ElementsRendered(r) THEN PlayOrPauseAll(r, w, Segments) ELSE w

\* "when user switches stops, reset all audio state" effect, deps [activeStop]
ResetEffect(r, w) ==
  LET w1 == [w EXCEPT !.isPlaying = FALSE, !.currentAudio = Null]
  IN IF ElementsRendered(r)
     THEN setCurrentTime(setCurrentTime(setCurrentTime(w1, "narration", 0),
                                        "greeting", 0), "ending", 0)
     ELSE w1

\* the tree after React has unmounted it: the component's state, its <audio>
\* elements and its position watch are gone, pending callbacks find nothing to
\* update; the store stays
Unmounted(w) ==
  [tour |-> Null, allStops |-> <<>>, activeStop |-> 0, isPlaying |-> FALSE,
   visitedStops |-> <<>>, banner |-> Null, currentAudio |-> Null,
   userLocation |-> <<>>, store |-> w.store, timers |-> <<>>,
   audioTime |-> [seg \in Segments |-> 0], audioPlaying |-> {}, audioEnded |-> {},
   tappedPlay |-> FALSE, mounted |-> FALSE, setItemRaises |-> w.setItemRaises,
   freshVisited |-> FALSE]

\* One render and its effects, repeated while a render queues a change.
\* chg names the dependencies that differ from the previous render.
RECURSIVE Render(_, _)
Render(r, chg) ==
  LET w0 == IF chg.activeStop
            THEN [r EXCEPT !.timers = MarkStale(@), !.tappedPlay = FALSE] ELSE r
      w1 == IF chg.tour \/ chg.activeStop \/ chg.visitedStops
            THEN SaveProgressEffect(r, w0) ELSE w0
      w2 == IF chg.tour THEN LoadProgressEffect(r, w1) ELSE w1
      w3 == IF chg.activeStop \/ chg.allStops \/ chg.userLocation
               \/ chg.visitedStops \/ chg.currentAudio
            THEN AutoplayEffect(r, w2) ELSE w2
      w4 == IF chg.currentAudio \/ chg.isPlaying THEN SingleAudioEffect(r, w3) ELSE w3
      w5 == IF chg.activeStop THEN ResetEffect(r, w4) ELSE w4
      next == Changed(r, w5)
  IN IF ~w5.mounted THEN Unmounted(w5)
     ELSE IF next = NoChange THEN w5
     ELSE Render([w5 EXCEPT !.freshVisited = FALSE], next)

\* an event handler's batch of updates, then the renders it causes
Process(m) == Render([m EXCEPT !.freshVisited = FALSE], Changed(Cur, m))
ProcessLocation(m) ==
  Render(m, [Changed(Cur, m) EXCEPT !.userLocation = TRUE])

\* ------------------------------------------------------------ initial state
\* the component just mounted: useState defaults, "Loading..." rendered, no
\* <audio> element yet, nothing stored
Init ==
  /\ tour = Null
  /\ allStops = <<>>
  /\ activeStop = 0
  /\ isPlaying = FALSE
  /\ visitedStops = <<>>
  /\ banner = Null
  /\ currentAudio = Null
  /\ userLocation = <<>>
  /\ store = <<>>
  /\ timers = <<>>
  /\ audioTime = [seg \in Segments |-> 0]
  /\ audioPlaying = {}
  /\ audioEnded = {}
  /\ tappedPlay = FALSE
  /\ mounted = TRUE
  /\ setItemRaises = FALSE

\* the playable sequence [greeting, ...stops, ending]; coords is the set of
\* real stops that carry coordinates
PlayableSequence(n, coords) ==
  [i \in 1..(n + 2) |->
     IF i = 1 THEN [kind |-> "greeting", lat |-> 0]
     ELSE IF i = n + 2 THEN [kind |-> "ending", lat |-> 0]
     ELSE [kind |-> "stop", lat |-> IF (i - 1) \in coords THEN StopLat(i - 1) ELSE 0]]

\* ------------------------------------------------------------------ actions
\* fetchAllTourData resolves: tour, greeting, ending and allStops are set
fetchAllTourData ==
  /\ tour = Null
  /\ \E n \in 0..MaxStops, coords \in SUBSET (1..MaxStops), t \in {"with_id"} :
       /\ coords \subseteq 1..n
       /\ Commit(Process([Cur EXCEPT !.tour = t, !.allStops = PlayableSequence(n, coords)]))

\* the watchPosition callback: setUserLocation with a new object
watchPosition ==
  \E lat \in UserLats :
    /\ userLocation' = <<lat>>
    /\ Commit(ProcessLocation([Cur EXCEPT !.userLocation = <<lat>>]))

\* variant of the play/pause button that selects the narration at every index
handlePlay_AlwaysNarration ==
  /\ tour # Null
  /\ LET m == IF ~isPlaying
              THEN [Cur EXCEPT !.currentAudio =
                                  IF currentAudio # Null THEN currentAudio ELSE "narration",
                               !.isPlaying = TRUE, !.tappedPlay = TRUE]
              ELSE [Cur EXCEPT !.isPlaying = FALSE]
     IN Commit(Process(m))

\* variant of the play/pause button that never selects a segment
handlePlay_FlipsOnly ==
  /\ tour # Null
  /\ Commit(Process([Cur EXCEPT !.isPlaying = ~isPlaying,
                                !.tappedPlay = tappedPlay \/ ~isPlaying]))

\* play/pause button
handlePlay ==
  /\ tour # Null
  /\ LET m == IF ~isPlaying
              THEN [Cur EXCEPT !.currentAudio =
                                  IF currentAudio # Null THEN currentAudio
                                  ELSE IF activeStop = 0 THEN "greeting"
                                  ELSE IF activeStop = Len(allStops) - 1 THEN "ending"
                                  ELSE "narration",
                               !.isPlaying = TRUE, !.tappedPlay = TRUE]
              ELSE [Cur EXCEPT !.isPlaying = FALSE]
     IN Commit(Process(m))

Max(a, b) == IF a > b THEN a ELSE b
Min(a, b) == IF a < b THEN a ELSE b

\* handleSkip(targetIndex); arguments are <<"number", n>> or <<"object">> (the
\* click event the forward button passes)
skipTo(m, targetIndex) ==
  IF targetIndex[1] = "number" /\ targetIndex[2] >= 0 /\ targetIndex[2] < Len(m.allStops)
  THEN [m EXCEPT !.activeStop = targetIndex[2], !.currentAudio = Null, !.isPlaying = FALSE]
  ELSE m

\* what the skip-previous, skip-next and forward buttons pass to handleSkip
SkipButtons == {<<"number", Max(activeStop - 1, 0)>>,
                <<"number", Min(activeStop + 1, Len(allStops) - 1)>>,
                <<"object">>}

handleSkip ==
  /\ tour # Null
  /\ \E targetIndex \in SkipButtons : Commit(Process(skipTo(Cur, targetIndex)))

\* a tap on an entry of the stop list: setActiveStop(i)
selectStop ==
  /\ tour # Null
  /\ \E i \in 0..(Len(allStops) - 1) :
       Commit(Process([Cur EXCEPT !.activeStop = i]))

\* Restart Tour button of the settings dialog
restartTour ==
  /\ tour # Null
  /\ Commit(Process([Cur EXCEPT !.visitedStops = <<>>, !.freshVisited = TRUE,
                                !.activeStop = 0, !.store = <<>>]))

\* media "ended" event of an element: playback stops at the end
mediaEnded(m, seg) == [m EXCEPT !.audioPlaying = @ \ {seg}, !.audioEnded = @ \cup {seg}]

onGreetingEnded ==
  /\ "greeting" \in audioPlaying
  /\ audioTime["greeting"] = LastTime("greeting")
  /\ Commit(Process([mediaEnded(Cur, "greeting") EXCEPT !.activeStop = 1]))

\* the mount-time effects that would add "ended" listeners to the approach and
\* arrive elements find the refs empty: the first render returns "Loading..."
ListenersAttachedAtMount == FALSE

\* listener of the approach-ended effect
onApproachEnded(m) ==
  setTimeout([m EXCEPT !.currentAudio = "arrived", !.isPlaying = TRUE,
                       !.banner = ApproachBanner], BANNER_TIMEOUT)

approachEnded ==
  /\ "approaching" \in audioPlaying
  /\ audioTime["approaching"] = LastTime("approaching")
  /\ LET m == mediaEnded(Cur, "approaching")
     IN Commit(Process(IF ListenersAttachedAtMount THEN onApproachEnded(m) ELSE m))

\* onArrivedEnded (onEnded prop of the arrive element, and the listener of the
\* arrived-ended effect, which does the same)
arrivedEndedHandler(m) == setTimeout([m EXCEPT !.banner = ArriveBanner], AUDIO_DELAY)

onArrivedEnded ==
  /\ "arrived" \in audioPlaying
  /\ audioTime["arrived"] = LastTime("arrived")
  /\ LET m == arrivedEndedHandler(mediaEnded(Cur, "arrived"))
     IN Commit(Process(IF ListenersAttachedAtMount THEN arrivedEndedHandler(m) ELSE m))

\* variant in which the end of a narration also moves on to the next stop
narrationEnded_AutoAdvance ==
  /\ "narration" \in audioPlaying
  /\ audioTime["narration"] = LastTime("narration")
  /\ Commit(Process([mediaEnded(Cur, "narration") EXCEPT !.isPlaying = FALSE,
                                                        !.activeStop = @ + 1]))

\* onEnded of the narration and ending elements
narrationEnded ==
  /\ "narration" \in audioPlaying
  /\ audioTime["narration"] = LastTime("narration")
  /\ Commit(Process([mediaEnded(Cur, "narration") EXCEPT !.isPlaying = FALSE]))

endingEnded ==
  /\ "ending" \in audioPlaying
  /\ audioTime["ending"] = LastTime("ending")
  /\ Commit(Process([mediaEnded(Cur, "ending") EXCEPT !.isPlaying = FALSE]))

\* variant of the listener that marks only past the threshold (> for >=)
handleTimeUpdate_StrictlyAbove(m) ==
  IF /\ isRealStop(m.activeStop, m.allStops)
     /\ ~Includes(m.visitedStops, m.activeStop)
     /\ m.audioTime["narration"] > VISITED_THRESHOLD_SECONDS
  THEN [m EXCEPT !.visitedStops = Append(@, m.activeStop), !.freshVisited = TRUE]
  ELSE m

\* variant of the listener without the includes() tests
handleTimeUpdate_AppendsAgain(m) ==
  IF /\ isRealStop(m.activeStop, m.allStops)
     /\ m.audioTime["narration"] >= VISITED_THRESHOLD_SECONDS
  THEN [m EXCEPT !.visitedStops = Append(@, m.activeStop), !.freshVisited = TRUE]
  ELSE m

\* "timeupdate" listener of the visited-marking effect; the effect attaches it
\* to the narration element while activeStop is a real stop
handleTimeUpdate(m) ==
  IF /\ isRealStop(m.activeStop, m.allStops)
     /\ ~Includes(m.visitedStops, m.activeStop)
     /\ m.audioTime["narration"] >= VISITED_THRESHOLD_SECONDS
  THEN [m EXCEPT !.visitedStops = Append(@, m.activeStop), !.freshVisited = TRUE]
  ELSE m

timeUpdated(m, seg) == IF seg = "narration" THEN handleTimeUpdate(m) ELSE m

\* playback of the playing element advances and the element reports "timeupdate"
timeupdate ==
  \E seg \in audioPlaying :
    \E t \in Times(seg) :
      /\ t > audioTime[seg]
      /\ Commit(Process(timeUpdated([Cur EXCEPT !.audioTime[seg] = t], seg)))

\* audioRef prop of NarrationProgressBar
ProgressBarAudio == IF activeStop = 0 THEN "greeting"
                    ELSE IF activeStop = Len(allStops) - 1 THEN "ending"
                    ELSE "narration"

\* handleSeek / handleReset of NarrationProgressBar: currentTime is assigned
handleSeek ==
  /\ tour # Null
  /\ \E t \in Times(ProgressBarAudio) :
       /\ t # audioTime[ProgressBarAudio]
       /\ Commit(Process(timeUpdated(setCurrentTime(Cur, ProgressBarAudio, t),
                                     ProgressBarAudio)))

\* a pending callback fires once every callback that is due before it has fired:
\* a 15 s one once nothing scheduled before it is pending, a 10 s one once no
\* 10 s one scheduled before it is pending
Remove(ts, i) == SubSeq(ts, 1, i - 1) \o SubSeq(ts, i + 1, Len(ts))

Due(ts, i) == IF ts[i].kind = BANNER_TIMEOUT THEN i = 1
              ELSE \A j \in 1..(i - 1) : ts[j].kind # AUDIO_DELAY

\* setTimeout(() => setBanner(null), BANNER_TIMEOUT)
bannerTimeout ==
  \E i \in 1..Len(timers) :
    /\ timers[i].kind = BANNER_TIMEOUT
    /\ Due(timers, i)
    /\ Commit(Process([Cur EXCEPT !.timers = Remove(@, i), !.banner = Null]))

\* the callback onArrivedEnded schedules after AUDIO_DELAY
audioDelayCallback(m) == [m EXCEPT !.currentAudio = "narration", !.isPlaying = TRUE,
                                   !.banner = Null]

audioDelay ==
  \E i \in 1..Len(timers) :
    /\ timers[i].kind = AUDIO_DELAY
    /\ Due(timers, i)
    /\ Commit(Process(audioDelayCallback([Cur EXCEPT !.timers = Remove(@, i)])))

\* the page is left and opened again: a new mount, the stored progress stays
newSession ==
  /\ tour # Null \/ ~mounted
  /\ tour' = Null
  /\ allStops' = <<>>
  /\ activeStop' = 0
  /\ isPlaying' = FALSE
  /\ visitedStops' = <<>>
  /\ banner' = Null
  /\ currentAudio' = Null
  /\ userLocation' = <<>>
  /\ timers' = <<>>
  /\ audioTime' = [seg \in Segments |-> 0]
  /\ audioPlaying' = {}
  /\ audioEnded' = {}
  /\ tappedPlay' = FALSE
  /\ mounted' = TRUE
  /\ UNCHANGED <<store, setItemRaises>>

Next ==
  \/ fetchAllTourData
  \/ watchPosition
  \/ handlePlay
  \/ handleSkip
  \/ selectStop
  \/ restartTour
  \/ onGreetingEnded
  \/ approachEnded
  \/ onArrivedEnded
  \/ narrationEnded
  \/ endingEnded
  \/ timeupdate
  \/ handleSeek
  \/ bannerTimeout
  \/ audioDelay
  \/ newSession

Spec == Init /\ [][Next]_vars

\* the store stops accepting writes: from now on localStorage.setItem raises
setItemStartsRaising ==
  /\ ~setItemRaises
  /\ setItemRaises' = TRUE
  /\ UNCHANGED <<tour, allStops, activeStop, isPlaying, visitedStops, banner,
                 currentAudio, userLocation, store, timers, audioTime, audioPlaying,
                 audioEnded, tappedPlay, mounted>>

NextFailingStore == Next \/ setItemStartsRaising

SpecFailingStore == Init /\ [][NextFailingStore]_vars

TypeOK ==
  /\ tour \in {Null, "with_id"}
  /\ isPlaying \in BOOLEAN
  /\ currentAudio \in Segments \cup {Null}
  /\ banner \in {Null, ArriveBanner, ApproachBanner}
  /\ audioPlaying \subseteq Segments
  /\ Len(timers) <= MaxTimers
  /\ mounted \in BOOLEAN /\ setItemRaises \in BOOLEAN

\* ------------------------------------------------------------------- claims
Loaded == tour # Null
LastIndex == Len(allStops) - 1
AtRealStop == Loaded /\ isRealStop(activeStop, allStops)
Visited == Includes(visitedStops, activeStop)
HasCoords == Stop(allStops, activeStop).lat # 0
DistanceTo(loc) == getDistanceMeters(loc[1], Stop(allStops, activeStop).lat)
InFlight == currentAudio \in {"approaching", "arrived", "narration"}
FreshDelayPending == \E i \in 1..Len(timers) : timers[i].kind = AUDIO_DELAY /\ ~timers[i].stale
NextDelayFresh == \E i \in 1..Len(timers) :
                    timers[i].kind = AUDIO_DELAY /\ Due(timers, i) /\ ~timers[i].stale

\* C1: a progress record saved in an earlier session is restored when the
\* screen is initialised again: once the tour content is loaded and the save
\* and load effects have run, activeStop and visitedStops are the saved ones.
C1_ProgressSurvivesSession ==
  [][(fetchAllTourData /\ store # <<>>) =>
       /\ activeStop' = JSONparse(store)[1].activeStop
       /\ visitedStops' = JSONparse(store)[1].visitedStops]_vars

\* C2: whenever activeStop arrives at the last index (skip or otherwise), the
\* processed state has segment ending and isPlaying = true.
C2_EndingBoundary ==
  [][(tour' # Null /\ activeStop' # activeStop /\ activeStop' = Len(allStops') - 1) =>
       (currentAudio' = "ending" /\ isPlaying')]_vars

\* C3: whenever activeStop becomes 0 (skip, list selection, restart, initial
\* load) the processed state has segment greeting and isPlaying = false, and
\* the greeting element starts playing only in a play-button step.
C3_GreetingBoundary ==
  [][/\ (tour' # Null /\ activeStop' = 0 /\ (activeStop # 0 \/ tour = Null \/ restartTour)) =>
          (currentAudio' = "greeting" /\ ~isPlaying')
     /\ ("greeting" \in audioPlaying' /\ "greeting" \notin audioPlaying) => handlePlay]_vars

\* C4: at an unvisited real stop with coordinates where a far reading left
\* narration selected and not playing, a location update into the approach
\* zone (18 m < d <= 60 m) gives segment approaching, isPlaying = true and a banner.
C4_ArrivalScenario ==
  [][(/\ AtRealStop /\ ~Visited /\ HasCoords
      /\ currentAudio = "narration" /\ ~isPlaying /\ audioTime["narration"] = 0
      /\ userLocation # <<>> /\ DistanceTo(userLocation) > 60
      /\ watchPosition
      /\ DistanceTo(userLocation') > 18 /\ DistanceTo(userLocation') <= 60) =>
       (currentAudio' = "approaching" /\ isPlaying' /\ banner' # Null)]_vars

\* C5: when the approaching prompt finishes while it is the active segment, the
\* segment becomes arrived with isPlaying = true and the arrive banner.
C5_ApproachingCompletion ==
  [][(approachEnded /\ currentAudio = "approaching") =>
       (currentAudio' = "arrived" /\ isPlaying' /\ banner' = ArriveBanner)]_vars

\* C6: a completion of the arrived prompt schedules the 10 s delay exactly once;
\* while that delay is pending and the stop index has not changed the segment
\* stays arrived; when it fires the segment is narration, isPlaying = true and
\* the banner is cleared.
C6_ArrivedCompletion ==
  [][/\ onArrivedEnded =>
          /\ Len(timers') = Len(timers) + 1
          /\ timers'[Len(timers')] = [kind |-> AUDIO_DELAY, stale |-> FALSE]
     /\ FreshDelayPending' => currentAudio' = "arrived"
     /\ (audioDelay /\ NextDelayFresh) =>
          (currentAudio' = "narration" /\ isPlaying' /\ banner' = Null)]_vars

\* C7: a location evaluated for an unvisited real stop with coordinates while no
\* prompt or narration is in flight gives arrived/playing/arrive banner within
\* 18 m, approaching/playing/approach banner within 60 m, and narration, not
\* playing, no banner beyond.
C7_ProximityClassification ==
  [][(AtRealStop /\ ~Visited /\ HasCoords /\ ~InFlight /\ watchPosition) =>
       IF DistanceTo(userLocation') <= 18
       THEN currentAudio' = "arrived" /\ isPlaying' /\ banner' = ArriveBanner
       ELSE IF DistanceTo(userLocation') <= 60
       THEN currentAudio' = "approaching" /\ isPlaying' /\ banner' = ApproachBanner
       ELSE currentAudio' = "narration" /\ ~isPlaying' /\ banner' = Null]_vars

\* C8: when activeStop becomes an unvisited real stop without coordinates, or
\* while no location is known, the processed state has segment narration and
\* isPlaying = true.
C8_FailOpen ==
  [][(/\ tour' # Null /\ activeStop' # activeStop
      /\ isRealStop(activeStop', allStops')
      /\ ~Includes(visitedStops', activeStop')
      /\ (Stop(allStops', activeStop').lat = 0 \/ userLocation' = <<>>)) =>
       (currentAudio' = "narration" /\ isPlaying')]_vars

\* C9 (as stated): at a visited real stop every location update leaves segment
\* narration with isPlaying = false unless the user has tapped play; it never
\* publishes a banner and never sets isPlaying to true.
C9_RevisitAsStated ==
  [][(AtRealStop /\ Visited /\ watchPosition) =>
       /\ currentAudio' = "narration"
       /\ isPlaying' => tappedPlay'
       /\ isPlaying' => isPlaying
       /\ banner' = banner /\ timers' = timers]_vars

\* C9 (amended): at a visited real stop every location update leaves an active
\* narration as it is (playing or not) and otherwise selects narration with
\* isPlaying = false; it never activates approaching or arrived, never
\* publishes a banner and never sets isPlaying to true.
C9_Revisit ==
  [][(AtRealStop /\ Visited /\ watchPosition) =>
       /\ currentAudio' = "narration"
       /\ isPlaying' = (currentAudio = "narration" /\ isPlaying)
       /\ banner' = banner /\ timers' = timers]_vars

\* a visited stop, the user inside the arrive radius, narration selected and paused
C9_Witness ==
  /\ AtRealStop /\ Visited /\ HasCoords
  /\ userLocation # <<>> /\ DistanceTo(userLocation) <= 18
  /\ currentAudio = "narration" /\ ~isPlaying /\ banner = Null

\* C10: at a real stop, a narration elapsed-time sample of 60 s or more puts the
\* stop's index in visitedStops, and a sample below 60 s adds nothing.
C10_DwellThreshold ==
  [][(AtRealStop /\ activeStop' = activeStop /\ tour' = tour
      /\ audioTime'["narration"] # audioTime["narration"]) =>
       IF audioTime'["narration"] >= 60
       THEN Includes(visitedStops', activeStop)
       ELSE visitedStops' = visitedStops]_vars

\* the narration of an unvisited stop reached 60 s and the stop is now visited
C10_Witness ==
  /\ AtRealStop /\ Visited
  /\ currentAudio = "narration" /\ isPlaying
  /\ audioTime["narration"] = 60

\* C11: after the Restart Tour action and the effects it triggers, visitedStops
\* is empty, activeStop is 0 and no progress record is stored for the tour.
C11_Restart ==
  [][restartTour => (visitedStops' = <<>> /\ activeStop' = 0 /\ store' = <<>>)]_vars

\* what the autoplay rules decide for the stop of m when no segment is active
Decided(m) ==
  LET r == [m EXCEPT !.currentAudio = Null, !.isPlaying = FALSE]
  IN AutoplayEffect(r, r)

C13_AllPlayersRewound ==
  [][(tour' # Null /\ activeStop' # activeStop) =>
       \A seg \in Segments : audioTime'[seg] = 0]_vars

\* C14: a skip request that does not name a different valid index (the click
\* event the forward button passes, skip-previous at index 0, skip-next at the
\* last index) leaves activeStop, the segment, isPlaying and the elements'
\* positions and playback unchanged.
C14_SkipNoOp ==
  [][(handleSkip /\ activeStop' = activeStop) =>
       UNCHANGED <<currentAudio, isPlaying, audioTime, audioPlaying>>]_vars

\* C15: in every reachable state and for every valid index i, a tap on entry i
\* of the stop list and handleSkip(i) settle in the same activeStop, segment,
\* isPlaying and banner.
C15_SelectEqualsSkip ==
  Loaded =>
    \A i \in 0..LastIndex :
      LET selected == Process([Cur EXCEPT !.activeStop = i])
          skipped == Process(skipTo(Cur, <<"number", i>>))
      IN /\ selected.activeStop = skipped.activeStop
         /\ selected.currentAudio = skipped.currentAudio
         /\ selected.isPlaying = skipped.isPlaying
         /\ selected.banner = skipped.banner

\* C16: the play/pause button, when no segment is active, activates greeting at
\* index 0, ending at the last index and narration otherwise and sets isPlaying
\* to true; when a segment is active it only flips isPlaying.  activeStop is
\* unchanged in both cases.
C16_TogglePlayPause ==
  [][handlePlay =>
       /\ activeStop' = activeStop
       /\ IF currentAudio = Null
          THEN /\ isPlaying'
               /\ currentAudio' = IF activeStop = 0 THEN "greeting"
                                  ELSE IF activeStop = LastIndex THEN "ending"
                                  ELSE "narration"
          ELSE currentAudio' = currentAudio /\ isPlaying' = ~isPlaying]_vars

\* the play button was tapped at an unvisited stop inside the arrive radius
\* where no prompt has played: the narration is active and playing
C16_Witness ==
  /\ AtRealStop /\ ~Visited /\ HasCoords
  /\ userLocation # <<>> /\ DistanceTo(userLocation) <= 18
  /\ audioTime["arrived"] = 0 /\ audioTime["approaching"] = 0 /\ timers = <<>>
  /\ tappedPlay /\ currentAudio = "narration" /\ isPlaying /\ audioPlaying = {"narration"}

\* C17: when the greeting finishes, activeStop becomes 1 and, stop 1 being a real
\* stop, the segment and isPlaying are what the proximity/visited rules decide
\* for it, the decision being applied once (at most one banner timer is added).
C17_GreetingCompletion ==
  [][(onGreetingEnded /\ isRealStop(1, allStops)) =>
       /\ activeStop' = 1
       /\ currentAudio' = Decided(Cur').currentAudio
       /\ isPlaying' = Decided(Cur').isPlaying
       /\ Len(timers') <= Len(timers) + 1]_vars

\* C18: when the narration or the ending finishes, isPlaying becomes false and
\* activeStop, the segment and visitedStops stay as they are: the machine does
\* not advance to the next stop.
C18_NoAutoAdvance ==
  [][(narrationEnded \/ endingEnded) =>
       (~isPlaying' /\ UNCHANGED <<activeStop, currentAudio, visitedStops>>)]_vars

\* the narration of a real stop has played to its end and the machine rests there
C18_Witness ==
  /\ AtRealStop /\ "narration" \in audioEnded
  /\ currentAudio = "narration" /\ ~isPlaying /\ audioPlaying = {}

\* C19: in every settled state at most one of the five audio elements is
\* playing, and an element that is playing is the one named by the segment,
\* with isPlaying = true (so activating another segment has paused the element
\* that played before).
C19_SingleAudio ==
  /\ Cardinality(audioPlaying) <= 1
  /\ audioPlaying # {} => (isPlaying /\ audioPlaying = {currentAudio})

\* the arrived prompt was interrupted part-way and the narration is now the
\* only element playing
C19_Witness ==
  /\ AtRealStop /\ currentAudio = "narration" /\ isPlaying
  /\ audioPlaying = {"narration"}
  /\ audioTime["arrived"] > 0 /\ "arrived" \notin audioEnded

\* C20: once the tour content is loaded, activeStop is a valid index of the
\* playable sequence in every reachable state.
C20_ValidIndex ==
  Loaded => (0 <= activeStop /\ activeStop < Len(allStops))

\* a tour without real stops, moved on from the greeting to the ending at index 1
C20_Witness ==
  /\ Loaded /\ Len(allStops) = 2 /\ activeStop = 1
  /\ currentAudio = "ending" /\ isPlaying /\ store # <<>>

\* C21: in every reachable state visitedStops holds no index twice and only
\* indices of real stops (never 0, the last index or an index out of range), and
\* a narration sample at a stop that is already visited leaves it unchanged.
C21_VisitedStopsWellFormed ==
  /\ [](/\ \A i \in 1..Len(visitedStops) : isRealStop(visitedStops[i], allStops)
        /\ \A i, j \in 1..Len(visitedStops) : visitedStops[i] = visitedStops[j] => i = j)
  /\ [][(AtRealStop /\ Visited /\ activeStop' = activeStop /\ tour' = tour
         /\ audioTime'["narration"] # audioTime["narration"]) =>
          visitedStops' = visitedStops]_vars

\* a visited stop whose narration went on to the sample after the threshold
C21_Witness ==
  /\ AtRealStop /\ visitedStops = <<activeStop>>
  /\ currentAudio = "narration" /\ isPlaying
  /\ audioTime["narration"] = VISITED_THRESHOLD_SECONDS + 1

NextDelayStale == \E i \in 1..Len(timers) :
                    timers[i].kind = AUDIO_DELAY /\ Due(timers, i) /\ timers[i].stale

\* C22: when the 10 s delay of an arrived prompt fires after the stop index has
\* changed, it changes nothing: segment, isPlaying and banner stay as the new
\* stop's rules left them.
C22_StaleDelay ==
  [][(audioDelay /\ NextDelayStale) => UNCHANGED <<currentAudio, isPlaying, banner>>]_vars

\* a banner timer scheduled since the last stop change is pending: the banner
\* it belongs to was published for the current stop less than 15 s ago
FreshBannerPending == \E i \in 1..Len(timers) :
                        timers[i].kind = BANNER_TIMEOUT /\ ~timers[i].stale

\* C23: a 15 s banner timer scheduled before a stop-index change does not clear
\* a banner that was published after the change and whose own 15 s have not
\* elapsed.
C23_StaleBannerTimer ==
  [][(bannerTimeout /\ timers[1].stale /\ FreshBannerPending /\ banner # Null) =>
       banner' = banner]_vars

\* C24: at an unvisited real stop with coordinates, while the segment is
\* approaching, arrived or narration, a location update at any distance leaves
\* segment, isPlaying and banner unchanged.
C24_NoInterruption ==
  [][(AtRealStop /\ ~Visited /\ HasCoords /\ InFlight /\ watchPosition) =>
       UNCHANGED <<currentAudio, isPlaying, banner>>]_vars

\* the approaching prompt is playing and the location has moved inside the
\* arrive radius
C24_Witness ==
  /\ AtRealStop /\ ~Visited /\ HasCoords
  /\ currentAudio = "approaching" /\ isPlaying /\ banner = ApproachBanner
  /\ userLocation # <<>> /\ DistanceTo(userLocation) <= ARRIVE_DISTANCE

\* C25: an index enters visitedStops only in a step taken while the narration
\* is the active segment at that real stop and in which its narration elapsed
\* time is at least 60 s.
C25_SoleMutator ==
  [][\A i \in 0..Len(allStops') :
       (Includes(visitedStops', i) /\ ~Includes(visitedStops, i)) =>
         /\ AtRealStop /\ i = activeStop
         /\ currentAudio = "narration"
         /\ audioTime'["narration"] >= VISITED_THRESHOLD_SECONDS]_vars

\* C26: once tour content with a tour id is loaded, the stored progress record
\* equals the current {activeStop, visitedStops} in every settled state.
C26_PersistenceTracksState ==
  tour = "with_id" =>
    store = JSONstringify([activeStop |-> activeStop, visitedStops |-> visitedStops])

\* a stop has been marked visited and the record holds it
C26_Witness ==
  /\ AtRealStop /\ Visited
  /\ JSONparse(store) = <<[activeStop |-> activeStop, visitedStops |-> <<activeStop>>]>>

\* C27: a write of the progress record that raises is swallowed: the screen
\* stays mounted, the step that triggered the write completes and later events
\* are processed.
C27_WriteFailureSwallowed == mounted

\* C28: in every settled state after the content is loaded, the segment is
\* greeting only at index 0, ending only at the last index, and approaching,
\* arrived or narration only at a real stop.
C28_SegmentMatchesIndex ==
  Loaded =>
    /\ currentAudio = "greeting" => activeStop = 0
    /\ currentAudio = "ending" => activeStop = LastIndex
    /\ InFlight => isRealStop(activeStop, allStops)

\* back at index 0 after an arrived prompt ended at a stop, its delay no longer
\* pending: the segment is the greeting
C28_Witness ==
  /\ Loaded /\ activeStop = 0 /\ currentAudio = "greeting" /\ ~isPlaying
  /\ "arrived" \in audioEnded /\ timers = <<>>

\* C29: in every settled state isPlaying = true implies that a segment is active.
C29_PlayingHasSegment == isPlaying => currentAudio # Null

\* the play button was tapped at the last index: the ending is active and playing
C29_Witness ==
  /\ Loaded /\ activeStop = LastIndex /\ tappedPlay
  /\ isPlaying /\ currentAudio = "ending" /\ audioPlaying = {"ending"}

\* C30: when a narration sample adds activeStop to visitedStops while the
\* narration is the active segment and isPlaying = true, the segment stays
\* narration, isPlaying stays true and the element keeps playing.
C30_MarkingKeepsNarration ==
  [][(/\ AtRealStop /\ ~Visited /\ currentAudio = "narration" /\ isPlaying
      /\ activeStop' = activeStop /\ tour' = tour
      /\ Includes(visitedStops', activeStop)) =>
       (currentAudio' = "narration" /\ isPlaying' /\ audioPlaying' = audioPlaying)]_vars

\* inside the arrive radius the narration passed the threshold, the stop is
\* visited and the narration goes on playing
C30_Witness ==
  /\ AtRealStop /\ Visited /\ HasCoords
  /\ userLocation # <<>> /\ DistanceTo(userLocation) <= ARRIVE_DISTANCE
  /\ currentAudio = "narration" /\ isPlaying /\ audioPlaying = {"narration"}
  /\ audioTime["narration"] = VISITED_THRESHOLD_SECONDS

====
